---- MODULE Spec2Model ----
(***************************************************************************)
(* ElGamal over a prime-order subgroup of Z_p^*: encryption, proxy         *)
(* re-encryption, signatures, non-malleable encryption and "type 1" group  *)
(* parameter generation and the decoding of key containers, modelled from  *)
(* src/src/internal.rs, src/src/keys.rs, src/src/algorithms.rs and         *)
(* src/src/formats.rs.                                                     *)
(***************************************************************************)
EXTENDS Integers, Naturals, Sequences, FiniteSets, TLC

(***************************************************************************)
(* Bounds of the model.                                                    *)
(***************************************************************************)
\* largest modulus p of a group built with ElgamalGroup::new
MaxP == 19
\* number of leading zero bytes a caller may put in front of a message
MaxLeadZeros == 1
\* output size in bytes of the caller's digest
DigestLen == 1
\* the digests a caller may supply are numbered 0..MaxDigest
MaxDigest == 1
\* largest bit sizes asked of ElgamalGroup::generate
MaxL == 5
MaxK == 3
\* largest generator and key value in a serialized key container
MaxField == 3

(***************************************************************************)
(* BigUint arithmetic (num-bigint), as the code uses it.                   *)
(***************************************************************************)
RECURSIVE ModPow(_, _, _)
\* BigUint::modpow(e, n): square and multiply, result in [0, n)
ModPow(b, e, n) ==
    IF e = 0 THEN 1 % n
    ELSE LET h == ModPow(b, e \div 2, n)
         IN  IF e % 2 = 0 THEN (h * h) % n
             ELSE (((h * h) % n) * (b % n)) % n

RECURSIVE Bits(_)
\* BigUint::bits(): number of significant bits, 0 for 0
Bits(n) == IF n = 0 THEN 0 ELSE 1 + Bits(n \div 2)

RECURSIVE Pow2(_)
Pow2(n) == IF n = 0 THEN 1 ELSE 2 * Pow2(n - 1)

RECURSIVE Digits(_)
\* the base-256 digits of n, most significant first, none for 0
Digits(n) == IF n = 0 THEN << >> ELSE Append(Digits(n \div 256), n % 256)

\* BigUint::to_bytes_be(): minimal big-endian bytes, [0] for zero
ToBytesBe(n) == IF n = 0 THEN << 0 >> ELSE Digits(n)

RECURSIVE FromBytesBe(_)
\* BigUint::from_bytes_be(): big-endian value, 0 for the empty slice
FromBytesBe(s) ==
    IF s = << >> THEN 0
    ELSE FromBytesBe(SubSeq(s, 1, Len(s) - 1)) * 256 + s[Len(s)]

\* the primality test, taken as exact
IsPrime(n) == n > 1 /\ \A d \in 2..(n - 1) : n % d # 0

\* Option::None of mod_inverse
NoInverse == -1

\* ModInverse::mod_inverse(n): the inverse in [0, n), None when gcd # 1
ModInverse(a, n) ==
    LET S == { i \in 1..(n - 1) : (a * i) % n = 1 }
    IN  IF S = {} THEN NoInverse ELSE CHOOSE i \in S : TRUE

(***************************************************************************)
(* Results (error.rs).                                                     *)
(***************************************************************************)
NoBytes == << >>

\* Ok(v) for an integer, Ok(bytes) for a buffer, Ok(()) as OkUnit
OkInt(v) == [st |-> "Ok", n |-> v, bytes |-> NoBytes]
OkBytes(b) == [st |-> "Ok", n |-> 0, bytes |-> b]
OkUnit == [st |-> "Ok", n |-> 0, bytes |-> NoBytes]
Err(e) == [st |-> e, n |-> 0, bytes |-> NoBytes]
NoResult == [st |-> "None", n |-> 0, bytes |-> NoBytes]

(***************************************************************************)
(* Groups and keys (keys.rs).                                              *)
(***************************************************************************)
\* ElgamalGroup::new
ElgamalGroup(p, q, g) == [p |-> p, q |-> q, g |-> g]

\* the groups of the data model: p prime, q prime dividing p-1, g of order q
ValidGroups ==
    { ElgamalGroup(p, q, g) : p \in 2..MaxP, q \in 2..MaxP, g \in 2..MaxP }

IsValidGroup(G) ==
    /\ IsPrime(G.p) /\ IsPrime(G.q)
    /\ (G.p - 1) % G.q = 0
    /\ G.g < G.p /\ G.g # 1
    /\ ModPow(G.g, G.q, G.p) = 1

\* algorithms::key_generation for the sampled exponent x
KeyGeneration(G, xx) == << ModPow(G.g, xx, G.p), xx >>

(***************************************************************************)
(* internal.rs: raw primitives.                                            *)
(***************************************************************************)
\* encrypt_raw: the second component is not reduced modulo p
encrypt_raw(mm, p, yy, g, r) == << ModPow(g, r, p), mm * ModPow(yy, r, p) >>

\* decrypt_raw multiplying by a^x instead of its inverse
decrypt_raw_no_inverse(a, b, p, xx) ==
    OkInt((ModPow(a, xx, p) * b) % p)

\* decrypt_raw
decrypt_raw(a, b, p, xx) ==
    LET inv == ModInverse(ModPow(a, xx, p), p)
    IN  IF inv = NoInverse THEN Err("InvalidPrivateKey")
        ELSE OkInt((inv * b) % p)

\* encrypt, for the ephemeral r the rng returned
encrypt(G, yy, mm, r) == encrypt_raw(mm, G.p, yy, G.g, r)

\* reencrypt without the multiplication a1 *= a
reencrypt_keep_a1(G, yy, a, b, r) == encrypt_raw(b, G.p, yy, G.g, r)

\* reencrypt, for the ephemeral r the rng returned
reencrypt(G, yy, a, b, r) ==
    LET e == encrypt_raw(b, G.p, yy, G.g, r)
    IN  << e[1] * a, e[2] >>

\* decrypt handing the pair to decrypt_raw in the wrong order
decrypt_swapped(G, xx, a, b) == decrypt_raw(b, a, G.p, xx)

\* decrypt
decrypt(G, xx, a, b) == decrypt_raw(a, b, G.p, xx)

(***************************************************************************)
(* keys.rs: byte-level encryption.                                         *)
(***************************************************************************)
\* ElgamalPublicKey::encrypt: the integers it sends and the buffer returned
PubEncrypt(G, yy, bytes, r) ==
    LET mm == FromBytesBe(bytes)
    IN  IF Bits(mm) > Bits(G.p)
        THEN [res |-> Err("MessageTooLong"), ct |-> << >>]
        ELSE LET c == encrypt(G, yy, mm, r)
             IN  [res |-> OkBytes(ToBytesBe(c[1]) \o ToBytesBe(c[2])), ct |-> c]

\* slice::split_at(len / 2)
SplitHalf(bytes) ==
    << SubSeq(bytes, 1, Len(bytes) \div 2),
       SubSeq(bytes, Len(bytes) \div 2 + 1, Len(bytes)) >>

\* ElgamalPrivateKey::decrypt: the pair it recovers and the result
PrivDecrypt(G, xx, bytes) ==
    IF Len(bytes) % 2 # 0
    THEN [res |-> Err("InvalidData"), split |-> << >>]
    ELSE LET h == SplitHalf(bytes)
             a == FromBytesBe(h[1])
             b == FromBytesBe(h[2])
             r == decrypt(G, xx, a, b)
         IN  [res |-> IF r.st = "Ok" THEN OkBytes(ToBytesBe(r.n)) ELSE r,
              split |-> << a, b >>]

(***************************************************************************)
(* internal.rs: signatures.                                                *)
(***************************************************************************)
\* sign multiplying by k instead of its inverse modulo q
sign_no_inverse(G, xx, h, k) ==
    LET q == G.q
        r == ModPow(G.g, k, G.p)
        s1 == (xx * r) % q
        s == IF s1 > h THEN (k * (q + h - s1)) % q
             ELSE (k * (h - s1)) % q
    IN  [res |-> OkUnit, sig |-> << r, s >>]

\* sign, for the ephemeral k the rng returned
sign(G, xx, h, k) ==
    LET q == G.q
        r == ModPow(G.g, k, G.p)
        reverse_k == ModInverse(k, q)
        s1 == (xx * r) % q
        s == IF s1 > h THEN (reverse_k * (q + h - s1)) % q
             ELSE (reverse_k * (h - s1)) % q
    IN  IF reverse_k = NoInverse
        THEN [res |-> Err("InvalidInverse"), sig |-> << >>]
        ELSE [res |-> OkUnit, sig |-> << r, s >>]

\* the range check requiring both components to be out of range
OutOfRange_both(G, r, s) == s > G.q /\ r > G.p

\* the range check verify starts with
OutOfRange(G, r, s) == s > G.q \/ r > G.p

\* verify leaving r^s out of the left-hand side
verify_without_s(G, yy, h, r, s) ==
    IF s > G.q \/ r > G.p THEN Err("InvalidRange")
    ELSE IF ModPow(yy, r, G.p) = ModPow(G.g, h, G.p) THEN OkUnit
         ELSE Err("Verification")

\* verify
verify(G, yy, h, r, s) ==
    IF OutOfRange(G, r, s) THEN Err("InvalidRange")
    ELSE LET p == G.p
             v1 == (ModPow(yy, r, p) * ModPow(r, s, p)) % p
             v2 == ModPow(G.g, h, p)
         IN  IF v1 = v2 THEN OkUnit ELSE Err("Verification")

(***************************************************************************)
(* keys.rs: byte-level signatures.                                         *)
(***************************************************************************)
\* Vec::append(&mut other): moves every element of other to the end of self
\* and leaves other empty
VecAppend(self, other) == [self |-> self \o other, other |-> << >>]

\* ElgamalPrivateKey::sign: the pair it computed and the buffer returned,
\* which is the vector s after r.append(&mut s)
PrivSign(G, xx, bytes, k) ==
    LET h == FromBytesBe(bytes)
    IN  IF Bits(h) > Bits(G.p)
        THEN [res |-> Err("MessageTooLong"), sig |-> << >>]
        ELSE LET sg == sign(G, xx, h, k)
             IN  IF sg.res.st # "Ok" THEN sg
                 ELSE LET r == ToBytesBe(sg.sig[1])
                          s == ToBytesBe(sg.sig[2])
                          ap == VecAppend(r, s)
                      IN  [res |-> OkBytes(ap.other), sig |-> sg.sig]

\* ElgamalPublicKey::verify: the pair it recovers and the result
PubVerify(G, yy, hashed, sigbytes) ==
    IF Len(sigbytes) % 2 # 0
    THEN [res |-> Err("InvalidData"), split |-> << >>]
    ELSE LET h == FromBytesBe(hashed)
             hv == SplitHalf(sigbytes)
             r == FromBytesBe(hv[1])
             s == FromBytesBe(hv[2])
         IN  [res |-> verify(G, yy, h, r, s), split |-> << r, s >>]

(***************************************************************************)
(* internal.rs: non-malleable encryption.                                  *)
(***************************************************************************)
RECURSIVE DigestState(_, _)
\* the caller's DynDigest after reset() and update() with the given bytes:
\* a deterministic function of the digest chosen and of all bytes fed
DigestState(dg, bytes) ==
    IF bytes = << >> THEN dg
    ELSE (DigestState(dg, SubSeq(bytes, 1, Len(bytes) - 1)) * 31
            + bytes[Len(bytes)] + 1) % Pow2(8 * DigestLen)

RECURSIVE FixedBytes(_, _)
\* n as exactly len big-endian bytes
FixedBytes(n, len) ==
    IF len = 0 THEN << >>
    ELSE Append(FixedBytes(n \div 256, len - 1), n % 256)

\* finalize_reset(): the DigestLen output bytes
DigestFinalize(dg, bytes) == FixedBytes(DigestState(dg, bytes), DigestLen)

\* the challenge both sides derive: Hash(v || a || b) mod q
Challenge(dg, v, a, b, q) ==
    FromBytesBe(DigestFinalize(dg, ToBytesBe(v) \o ToBytesBe(a) \o ToBytesBe(b))) % q

\* non_malleable_encrypt with the response d = (s + c) mod q
non_malleable_encrypt_no_r(dg, G, yy, mm, r, s) ==
    LET e == encrypt_raw(mm, G.p, yy, G.g, r)
        v == ModPow(G.g, s, G.p)
        c == Challenge(dg, v, e[1], e[2], G.q)
    IN  << e[1], e[2], c, (s + c) % G.q >>

\* non_malleable_encrypt, for the ephemerals r and s the rng returned
non_malleable_encrypt(dg, G, yy, mm, r, s) ==
    LET e == encrypt_raw(mm, G.p, yy, G.g, r)
        v == ModPow(G.g, s, G.p)
        c == Challenge(dg, v, e[1], e[2], G.q)
        d == (s + c * r) % G.q
    IN  << e[1], e[2], c, d >>

\* non_malleable_decrypt
non_malleable_decrypt(dg, G, xx, a, b, c, d) ==
    LET a_inverse == ModInverse(ModPow(a, c, G.p), G.p)
        v == (ModPow(G.g, d, G.p) * a_inverse) % G.p
        v2 == Challenge(dg, v, a, b, G.q)
    IN  IF a_inverse = NoInverse THEN Err("InvalidPrivateKey")
        ELSE IF v2 # c THEN Err("Verification")
        ELSE decrypt_raw(a, b, G.p, xx)

(***************************************************************************)
(* algorithms.rs: parameter generation.                                    *)
(***************************************************************************)
\* generate_prime(rng, k): a prime of exactly k bits
GeneratePrime(k) == { n \in 2..(Pow2(k) - 1) : Bits(n) = k /\ IsPrime(n) }

\* 2^(log2(l) + 2) as usize: 4l, computed in f64 and truncated, so exact when
\* l is a power of two and otherwise 4l or 4l - 1 as the rounding falls
MaximumTries(l) ==
    IF \E i \in 0..l : Pow2(i) = l THEN {4 * l} ELSE {4 * l - 1, 4 * l}

\* the candidate modulus made from the random l-bit integer rnd
Candidate(rnd, q) == (rnd - (rnd % (q + q))) + 1

\* the test without the rejection of g = p - 1
AcceptG_not_one(g, p) == (g - 1) % p # 0

\* the test the generator search applies to g = h^exponent mod p
AcceptG(g, p) == (g + 1) % p # 0 /\ (g - 1) % p # 0

\* the bases h in [2, p-1) whose power is accepted
GoodBases(p, q) ==
    { h \in 2..(p - 2) : AcceptG(ModPow(h, (p - 1) \div q, p), p) }

Min(S) == CHOOSE v \in S : \A w \in S : v <= w

(***************************************************************************)
(* formats.rs: decoding of key containers.                                 *)
(***************************************************************************)
ELGAMAL_OID == "1.3.14.7.2.1.1"
DSA_OID == "1.2.840.10040.4.1"
\* an object identifier that is neither of the two
OTHER_OID == "1.2.840.113549.1.1.1"

verify_algorithm_id(oid) == oid = ELGAMAL_OID \/ oid = DSA_OID

\* Option<UIntRef>: None is the empty tuple, Some(bytes) is << bytes >>
None == << >>
Some(bytes) == << bytes >>

\* q of the decoded group: (p - 1) << 1 when the container omits it
DecodeQ(p, qo) ==
    IF qo = None THEN (p - 1) * 2 ELSE FromBytesBe(qo[1])

\* the three group fields of GroupParams as a decoded ElgamalGroup; the
\* BigUint subtraction p - 1 panics for p = 0
DecodeGroup(pb, qo, gb) ==
    LET p == FromBytesBe(pb)
        g == FromBytesBe(gb)
    IN  IF qo = None /\ p = 0
        THEN [res |-> Err("Panic"), group |-> ElgamalGroup(0, 0, 0)]
        ELSE [res |-> OkUnit, group |-> ElgamalGroup(p, DecodeQ(p, qo), g)]

\* TryFrom<PrivateKeyInfo> for ElgamalPrivateKey
PrivateKeyTryFrom(oid, version, pb, qo, gb, xb) ==
    IF ~verify_algorithm_id(oid)
    THEN [res |-> Err("InvalidOID"), group |-> ElgamalGroup(0, 0, 0), key |-> 0]
    ELSE IF version # 0
    THEN [res |-> Err("PrivateKeyMalformed"), group |-> ElgamalGroup(0, 0, 0),
          key |-> 0]
    ELSE LET d == DecodeGroup(pb, qo, gb)
         IN  [res |-> d.res, group |-> d.group,
              key |-> IF d.res.st = "Ok" THEN FromBytesBe(xb) ELSE 0]

\* TryFrom<PublicKeyInfo> for ElgamalPublicKey
PublicKeyTryFrom(oid, pb, qo, gb, yb) ==
    IF ~verify_algorithm_id(oid)
    THEN [res |-> Err("InvalidOID"), group |-> ElgamalGroup(0, 0, 0), key |-> 0]
    ELSE LET d == DecodeGroup(pb, qo, gb)
         IN  [res |-> d.res, group |-> d.group,
              key |-> IF d.res.st = "Ok" THEN FromBytesBe(yb) ELSE 0]

(***************************************************************************)
(* State.                                                                  *)
(***************************************************************************)
VARIABLES
    group,   \* the ElgamalGroup of the key pair
    x,       \* private exponent
    y,       \* public value g^x mod p
    op,      \* the operation that ran last
    prev,    \* the operation that ran before it
    m,       \* the integer (message or hash) given to the last producer
    msg,     \* the bytes given to the last byte-level producer
    ct,      \* the integers in flight: ciphertext, signature or 4-tuple
    buf,     \* the bytes in flight
    split,   \* the integers a byte-level consumer recovered from buf
    orig,    \* the honest input and values in flight, before an alteration
    digest,  \* the digest the caller supplies
    gen,     \* ElgamalGroup::generate: position, arguments and locals
    res      \* the result of the last operation

vars == << group, x, y, op, prev, m, msg, ct, buf, split, orig, digest, gen, res >>

\* a key pair over a valid group, as elgamal_key_generate builds it
InitKey ==
    /\ group \in { G \in ValidGroups : IsValidGroup(G) }
    /\ x \in 1..(group.q - 1)
    /\ y = KeyGeneration(group, x)[1]

Idle ==
    /\ op = "new" /\ prev = "new" /\ orig = << >> /\ m = 0 /\ msg = NoBytes /\ ct = << >> /\ buf = NoBytes
    /\ split = << >> /\ res = NoResult

\* no generation in progress
NoGen == [pc |-> "none", l |-> 0, k |-> 0, max |-> 0, q |-> 0, count |-> 0, p |-> 0]

Init == InitKey /\ Idle /\ digest \in 0..MaxDigest /\ gen = NoGen

\* the messages a caller hands to the integer-level encrypt: up to one past
\* the largest value with bit_length(m) <= bit_length(p)
Messages == 0..Pow2(Bits(group.p))

\* the values rng.gen_biguint_range(1, q) returns
Ephemerals == 1..(group.q - 1)

\* the byte strings a caller hands to the byte-level encrypt
RECURSIVE Zeros(_)
Zeros(k) == IF k = 0 THEN << >> ELSE << 0 >> \o Zeros(k - 1)
MessageBytes == { Zeros(z) \o Digits(v) : z \in 0..MaxLeadZeros, v \in Messages }

(***************************************************************************)
(* Operations of the cryptosystem.                                         *)
(***************************************************************************)
\* Every operation is a pure function of its arguments and the key pair is
\* immutable, so the state holds one pipeline: a producer starts it from the
\* freshly built key, the consumers act on the values in flight.
Encrypt ==
    /\ op = "new"
    /\ \E mm \in Messages, r \in Ephemerals :
        /\ ct' = encrypt(group, y, mm, r)
        /\ m' = mm
        /\ op' = "encrypt" /\ prev' = op
        /\ res' = OkUnit
        /\ UNCHANGED << group, x, y, digest, gen, msg, buf, split, orig >>

Reencrypt ==
    /\ op = "encrypt"
    /\ \E r \in Ephemerals :
        ct' = reencrypt(group, y, ct[1], ct[2], r)
    /\ op' = "reencrypt" /\ prev' = op
    /\ UNCHANGED << group, x, y, digest, gen, m, msg, buf, split, orig, res >>

\* a third party submits a pair of its own making
ForgeCiphertext ==
    /\ op = "new"
    /\ \E a \in 0..(2 * group.p), b \in 0..group.p : ct' = << a, b >>
    /\ op' = "forge" /\ prev' = op
    /\ UNCHANGED << group, x, y, digest, gen, m, msg, buf, split, orig, res >>

Decrypt ==
    /\ op \in {"encrypt", "reencrypt", "forge"}
    /\ res' = decrypt(group, x, ct[1], ct[2])
    /\ op' = "decrypt" /\ prev' = op
    /\ UNCHANGED << group, x, y, digest, gen, m, msg, ct, buf, split, orig >>

EncryptBytes ==
    /\ op = "new"
    /\ \E bytes \in MessageBytes, r \in Ephemerals :
        LET e == PubEncrypt(group, y, bytes, r)
        IN  /\ msg' = bytes
            /\ m' = FromBytesBe(bytes)
            /\ res' = e.res
            /\ buf' = e.res.bytes
            /\ ct' = e.ct
            /\ op' = "encrypt_bytes" /\ prev' = op
            /\ UNCHANGED << group, x, y, digest, gen, split, orig >>

\* the buffers a third party submits: empty, one byte, two bytes
ForgedBuffers ==
    {NoBytes} \cup { << u >> : u \in 0..group.p }
              \cup { << u, v >> : u \in 0..group.p, v \in 0..group.p }

\* a third party submits a buffer of its own making
ForgeBuffer ==
    /\ op = "new"
    /\ \E b \in ForgedBuffers : buf' = b
    /\ op' = "forge_bytes" /\ prev' = op
    /\ UNCHANGED << group, x, y, digest, gen, m, msg, ct, split, orig, res >>

DecryptBytes ==
    /\ \/ op = "encrypt_bytes" /\ res.st = "Ok"
       \/ op = "forge_bytes"
    /\ LET d == PrivDecrypt(group, x, buf)
       IN  res' = d.res /\ split' = d.split
    /\ op' = "decrypt_bytes" /\ prev' = op
    /\ UNCHANGED << group, x, y, digest, gen, m, msg, ct, buf, orig >>

Next ==
    \/ Encrypt \/ Reencrypt \/ ForgeCiphertext \/ Decrypt
    \/ EncryptBytes \/ ForgeBuffer \/ DecryptBytes

Spec == Init /\ [][Next]_vars

(***************************************************************************)
(* Operations of the signature scheme.                                     *)
(***************************************************************************)
\* the hash values a caller signs: as Messages
Hashes == Messages

Sign ==
    /\ op = "new"
    /\ \E h \in Hashes, k \in Ephemerals :
        LET sg == sign(group, x, h, k)
        IN  /\ m' = h
            /\ res' = sg.res
            /\ ct' = sg.sig
    /\ op' = "sign" /\ prev' = op
    /\ UNCHANGED << group, x, y, digest, gen, msg, buf, split, orig >>

\* a third party replaces the hash or one component of the signature in flight
TamperSignature ==
    /\ op = "sign" /\ res.st = "Ok"
    /\ orig' = << m, ct[1], ct[2] >>
    /\ \/ \E h \in Hashes \ {m} : m' = h /\ ct' = ct
       \/ \E r \in (0..(group.p + 1)) \ {ct[1]} : m' = m /\ ct' = << r, ct[2] >>
       \/ \E s \in (0..(group.q + 1)) \ {ct[2]} : m' = m /\ ct' = << ct[1], s >>
    /\ op' = "tamper" /\ prev' = op
    /\ UNCHANGED << group, x, y, digest, gen, msg, buf, split, res >>

\* a third party submits a hash and a pair of its own making
ForgeSignature ==
    /\ op = "new"
    /\ \E h \in 0..group.q, r \in 0..(group.p + 2), s \in 0..(group.q + 2) :
        m' = h /\ ct' = << r, s >>
    /\ op' = "forge" /\ prev' = op
    /\ UNCHANGED << group, x, y, digest, gen, msg, buf, split, orig, res >>

Verify ==
    /\ \/ op = "sign" /\ res.st = "Ok"
       \/ op \in {"tamper", "forge"}
    /\ res' = verify(group, y, m, ct[1], ct[2])
    /\ op' = "verify" /\ prev' = op
    /\ UNCHANGED << group, x, y, digest, gen, m, msg, ct, buf, split, orig >>

SignBytes ==
    /\ op = "new"
    /\ \E bytes \in MessageBytes, k \in Ephemerals :
        LET sg == PrivSign(group, x, bytes, k)
        IN  /\ msg' = bytes
            /\ m' = FromBytesBe(bytes)
            /\ res' = sg.res
            /\ buf' = sg.res.bytes
            /\ ct' = sg.sig
    /\ op' = "sign_bytes" /\ prev' = op
    /\ UNCHANGED << group, x, y, digest, gen, split, orig >>

VerifyBytes ==
    /\ op = "sign_bytes" /\ res.st = "Ok"
    /\ LET v == PubVerify(group, y, msg, buf)
       IN  res' = v.res /\ split' = v.split
    /\ op' = "verify_bytes" /\ prev' = op
    /\ UNCHANGED << group, x, y, digest, gen, m, msg, ct, buf, orig >>

NextSign ==
    Sign \/ TamperSignature \/ ForgeSignature \/ Verify \/ SignBytes \/ VerifyBytes

SpecSign == Init /\ [][NextSign]_vars

(***************************************************************************)
(* Operations of the non-malleable scheme.                                 *)
(***************************************************************************)
NonMalleableEncrypt ==
    /\ op = "new"
    /\ \E mm \in 0..(group.p - 1), r \in Ephemerals, s \in Ephemerals :
        /\ m' = mm
        /\ ct' = non_malleable_encrypt(digest, group, y, mm, r, s)
    /\ res' = OkUnit
    /\ op' = "nm_encrypt" /\ prev' = op
    /\ UNCHANGED << group, x, y, digest, gen, msg, buf, split, orig >>

\* the values a third party puts in place of the component v of a tuple
Alterations(v) == ({0, v + 1, v + group.q, v + group.p}) \ {v}

\* a third party replaces one component of the tuple in flight
TamperCiphertext ==
    /\ op = "nm_encrypt"
    /\ orig' = ct
    /\ \E i \in 1..4 : \E v \in Alterations(ct[i]) :
        ct' = [ct EXCEPT ![i] = v]
    /\ op' = "nm_tamper" /\ prev' = op
    /\ UNCHANGED << group, x, y, digest, gen, m, msg, buf, split, res >>

NonMalleableDecrypt ==
    /\ op \in {"nm_encrypt", "nm_tamper"}
    /\ res' = non_malleable_decrypt(digest, group, x, ct[1], ct[2], ct[3], ct[4])
    /\ op' = "nm_decrypt" /\ prev' = op
    /\ UNCHANGED << group, x, y, digest, gen, m, msg, ct, buf, split, orig >>

NextNM == NonMalleableEncrypt \/ TamperCiphertext \/ NonMalleableDecrypt

SpecNM == Init /\ [][NextNM]_vars

(***************************************************************************)
(* ElgamalGroup::generate(rng, l, k), one step per loop iteration of       *)
(* elgamal_parameter_generation_type1.                                     *)
(***************************************************************************)
NoGroup == ElgamalGroup(0, 0, 0)

InitGen ==
    /\ group = NoGroup /\ x = 0 /\ y = 0 /\ digest = 0
    /\ Idle
    /\ \E l \in 2..MaxL, k \in 2..MaxK :
        \E mx \in MaximumTries(l) :
            gen = [pc |-> "central", l |-> l, k |-> k, max |-> mx,
                   q |-> 0, count |-> 0, p |-> 0]

\* 'central: loop { let q = generate_prime(rng, k); ...; let mut count = 0;
GenCentral ==
    /\ gen.pc = "central"
    /\ \E q \in GeneratePrime(gen.k) :
        gen' = [gen EXCEPT !.pc = "inner", !.q = q, !.count = 0, !.p = 0]
    /\ UNCHANGED << group, x, y, op, prev, m, msg, ct, buf, split, orig, digest, res >>

\* one iteration of the inner loop, for the integer rng.gen_biguint(l) returned
GenTryP ==
    /\ gen.pc = "inner"
    /\ \E rnd \in 0..(Pow2(gen.l) - 1) :
        LET p == Candidate(rnd, gen.q)
        IN  gen' = IF Bits(p) = gen.l /\ IsPrime(p)
                   THEN [gen EXCEPT !.pc = "search", !.p = p]
                   ELSE IF gen.count > gen.max
                        THEN [gen EXCEPT !.pc = "central"]
                        ELSE [gen EXCEPT !.count = gen.count + 1]
    /\ UNCHANGED << group, x, y, op, prev, m, msg, ct, buf, split, orig, digest, res >>

\* the search for h in range(2, p - 1): returns at the first accepted g, and
\* goes round the outer loop when there is none
GenSearch ==
    /\ gen.pc = "search"
    /\ LET good == GoodBases(gen.p, gen.q)
       IN  IF good = {}
           THEN /\ gen' = [gen EXCEPT !.pc = "central"]
                /\ UNCHANGED << group, op, prev >>
           ELSE /\ gen' = [gen EXCEPT !.pc = "done"]
                /\ group' = ElgamalGroup(gen.p, gen.q,
                                ModPow(Min(good), (gen.p - 1) \div gen.q, gen.p))
                /\ op' = "generate" /\ prev' = op
    /\ UNCHANGED << x, y, m, msg, ct, buf, split, orig, digest, res >>

NextGen == GenCentral \/ GenTryP \/ GenSearch

SpecGen == InitGen /\ [][NextGen]_vars

(***************************************************************************)
(* Decoding of serialized keys.                                            *)
(***************************************************************************)
\* no key yet: one is about to be decoded from a container
InitFmt ==
    /\ group = ElgamalGroup(0, 0, 0) /\ x = 0 /\ y = 0 /\ digest = 0
    /\ Idle /\ gen = NoGen

\* the contents of a container: UIntRef fields carry minimal big-endian
\* bytes, the key field any byte string
OIDs == {ELGAMAL_OID, DSA_OID, OTHER_OID}
ModulusFields == { ToBytesBe(v) : v \in 0..MaxP }
OrderFields == {None} \cup { Some(ToBytesBe(v)) : v \in 0..MaxP }
GeneratorFields == { ToBytesBe(v) : v \in 0..MaxField }
KeyFields == { Zeros(z) \o Digits(v) : z \in 0..MaxLeadZeros, v \in 0..MaxField }

\* q as the container gives it, NoQ when it is omitted
NoQ == -1
GivenQ(qo) == IF qo = None THEN NoQ ELSE FromBytesBe(qo[1])

DecodePrivate ==
    /\ op = "new"
    /\ \E oid \in OIDs, version \in 0..1, pb \in ModulusFields,
          qo \in OrderFields, gb \in GeneratorFields, xb \in KeyFields :
        LET k == PrivateKeyTryFrom(oid, version, pb, qo, gb, xb)
        IN  /\ res' = k.res
            /\ group' = k.group
            /\ x' = k.key
            /\ ct' = << FromBytesBe(pb), GivenQ(qo), FromBytesBe(gb) >>
            /\ buf' = xb
    /\ op' = "decode_private" /\ prev' = op
    /\ UNCHANGED << y, digest, gen, m, msg, split, orig >>

DecodePublic ==
    /\ op = "new"
    /\ \E oid \in OIDs, pb \in ModulusFields,
          qo \in OrderFields, gb \in GeneratorFields, yb \in KeyFields :
        LET k == PublicKeyTryFrom(oid, pb, qo, gb, yb)
        IN  /\ res' = k.res
            /\ group' = k.group
            /\ y' = k.key
            /\ ct' = << FromBytesBe(pb), GivenQ(qo), FromBytesBe(gb) >>
            /\ buf' = yb
    /\ op' = "decode_public" /\ prev' = op
    /\ UNCHANGED << x, digest, gen, m, msg, split, orig >>

NextFmt == DecodePrivate \/ DecodePublic

SpecFmt == InitFmt /\ [][NextFmt]_vars

(***************************************************************************)
(* Properties.                                                             *)
(***************************************************************************)
\* the ciphertext decrypted last came straight from encrypt
DecryptedFresh == op = "decrypt" /\ prev = "encrypt"
\* the ciphertext decrypted last went through reencrypt
DecryptedReencrypted == op = "decrypt" /\ prev = "reencrypt"

\* C1 as stated: every message with bit_length(m) <= bit_length(p) survives
\* encrypt followed by decrypt.
C1_RoundTripByBitLength ==
    (DecryptedFresh /\ Bits(m) <= Bits(group.p)) => res = OkInt(m)

\* C1 as amended: every message m with 0 <= m < p survives encrypt followed
\* by decrypt: decrypt returns Ok(m); for a message m >= p it returns
\* Ok(m mod p).
C1_RoundTripBelowModulus ==
    /\ (DecryptedFresh /\ m < group.p) => res = OkInt(m)
    /\ (DecryptedFresh /\ m >= group.p) => res = OkInt(m % group.p)

\* a non-zero message below p came back from a ciphertext whose second
\* component exceeds p
C1_Witness ==
    /\ DecryptedFresh /\ m > 0 /\ m < group.p
    /\ ct[2] > group.p /\ res = OkInt(m)

\* C2: sign returns Ok((r, s)) for every hash value with
\* bit_length(h) <= bit_length(p), and verify accepts that (r, s) for h.
C2_SignatureRoundTrip ==
    /\ (op = "sign" /\ Bits(m) <= Bits(group.p)) => res.st = "Ok"
    /\ (op = "verify" /\ prev = "sign" /\ Bits(m) <= Bits(group.p))
            => res = OkUnit

\* a hash smaller than (x * r) mod q was signed and the signature verified
C2_Witness ==
    /\ op = "verify" /\ prev = "sign"
    /\ m < (x * ct[1]) % group.q
    /\ res = OkUnit

\* C3: the buffer the byte-level sign returns is bytes(r) followed by
\* bytes(s), and the byte-level verify recovers that (r, s) from it.
C3_SignatureBytesHoldBoth ==
    /\ (op = "sign_bytes" /\ res.st = "Ok")
            => res.bytes = ToBytesBe(ct[1]) \o ToBytesBe(ct[2])
    /\ (op = "verify_bytes") => split = ct

\* C4: a message without leading zero byte and with value in [1, p) survives
\* the byte-level encrypt followed by the byte-level decrypt, which recovers
\* the pair (a, b) that encrypt produced.
C4_ByteRoundTrip ==
    (/\ op = "decrypt_bytes"
     /\ msg # NoBytes /\ msg[1] # 0
     /\ m >= 1 /\ m < group.p)
        => (res = OkBytes(msg) /\ split = ct)

\* C5: every message in [1, p) survives non_malleable_encrypt followed by
\* non_malleable_decrypt with the same digest: decrypt returns Ok(m).
C5_NonMalleableRoundTrip ==
    (op = "nm_decrypt" /\ prev = "nm_encrypt" /\ m >= 1 /\ m < group.p)
        => res = OkInt(m)

\* a message in [1, p) came back from a tuple with a non-zero challenge
C5_Witness ==
    /\ op = "nm_decrypt" /\ prev = "nm_encrypt"
    /\ m >= 1 /\ ct[3] > 0 /\ ct[4] # ct[3]
    /\ res = OkInt(m)

\* C6: every message in [0, p) survives encrypt, reencrypt and decrypt.
C6_ReencryptPreservesPlaintext ==
    (DecryptedReencrypted /\ m < group.p) => res = OkInt(m)

\* a non-zero message came back from a re-encrypted ciphertext whose first
\* component exceeds p
C6_Witness ==
    /\ DecryptedReencrypted /\ m > 0 /\ m < group.p
    /\ ct[1] > group.p /\ res = OkInt(m)

\* the bytes non_malleable_decrypt feeds the digest for a tuple t, none when
\* the inverse does not exist
Preimage(t) ==
    LET inv == ModInverse(ModPow(t[1], t[3], group.p), group.p)
        v == (ModPow(group.g, t[4], group.p) * inv) % group.p
    IN  IF inv = NoInverse THEN << >>
        ELSE ToBytesBe(v) \o ToBytesBe(t[1]) \o ToBytesBe(t[2])

\* the altered tuple feeds the digest other bytes than the honest one and the
\* challenge derived from them happens to equal the one in the tuple
ChanceCollision ==
    /\ Preimage(ct) # << >>
    /\ Preimage(ct) # Preimage(orig)
    /\ FromBytesBe(DigestFinalize(digest, Preimage(ct))) % group.q = ct[3]

\* C7: non_malleable_decrypt of an honest tuple with one component altered
\* fails with Err(Verification), digest collisions apart.
C7_TamperDetected ==
    (op = "nm_decrypt" /\ prev = "nm_tamper" /\ ~ChanceCollision)
        => res = Err("Verification")

\* ElgamalGroup::generate has returned
Generated == gen.pc = "done"

\* C9: a generated group has q a prime of k bits, p a prime of l bits,
\* q dividing p - 1, g^q mod p = 1 and g mod p neither 1 nor p - 1.
C9_GroupValidity ==
    Generated =>
        /\ IsPrime(group.q) /\ Bits(group.q) = gen.k
        /\ IsPrime(group.p) /\ Bits(group.p) = gen.l
        /\ (group.p - 1) % group.q = 0
        /\ ModPow(group.g, group.q, group.p) = 1
        /\ group.g % group.p \notin {1, group.p - 1}

\* a group was returned after at least one rejected candidate modulus
C9_Witness == Generated /\ gen.count > 0 /\ group.q > 2

\* a hash or signature component was altered before verify ran
VerifiedTampered == op = "verify" /\ prev = "tamper"

\* C8 as stated: verify fails with Err(Verification) whenever the hash, r or
\* s differs from the honest value.
C8_TamperRejected == VerifiedTampered => res = Err("Verification")

\* C8 as amended: with the other inputs unchanged, a hash h' # h gives
\* Err(Verification) when h' differs from h modulo q and Ok otherwise; an
\* s' # s gives Err(InvalidRange) when s' > q, Err(Verification) when s' <= q
\* differs from s modulo q and Ok otherwise; an r' > p gives
\* Err(InvalidRange); an altered r' <= p gives no outcome but Ok or
\* Err(Verification).
C8_TamperOutcome ==
    /\ (VerifiedTampered /\ m # orig[1]) =>
          res = IF m % group.q = orig[1] % group.q THEN OkUnit
                ELSE Err("Verification")
    /\ (VerifiedTampered /\ ct[2] # orig[3]) =>
          res = IF ct[2] > group.q THEN Err("InvalidRange")
                ELSE IF ct[2] % group.q = orig[3] % group.q THEN OkUnit
                ELSE Err("Verification")
    /\ (VerifiedTampered /\ ct[1] # orig[2]) =>
          IF ct[1] > group.p THEN res = Err("InvalidRange")
          ELSE res \in {OkUnit, Err("Verification")}

\* an s' below q other than the honest s was rejected by the equation
C8_Witness ==
    /\ VerifiedTampered
    /\ ct[2] # orig[3] /\ ct[2] < group.q /\ orig[3] > 0
    /\ res = Err("Verification")

\* C10: verify returns Err(InvalidRange) whenever s > q or r > p, whatever
\* the hash, the key and the outcome of the verification equation.
C10_RangeRejection ==
    (op = "verify" /\ (ct[2] > group.q \/ ct[1] > group.p))
        => res = Err("InvalidRange")

\* a signature that satisfies the verification equation, s being the honest
\* value plus q, was rejected for its range
C10_Witness ==
    /\ op = "verify" /\ prev = "tamper"
    /\ ct[1] = orig[2] /\ m = orig[1] /\ ct[2] = orig[3] + group.q
    /\ res = Err("InvalidRange")

\* a key was decoded from a container that omits q
DecodedWithoutQ ==
    /\ op \in {"decode_private", "decode_public"}
    /\ res.st = "Ok" /\ ct[2] = NoQ

\* C11: a key decoded from a container that omits q has q = (p - 1) / 2.
C11_OmittedOrderIsHalf ==
    DecodedWithoutQ => group.q = (group.p - 1) \div 2

\* C12: for a message in [0, p), both components of the pair encrypt returns
\* are in [0, p), with a = g^r mod p and b = (m * y^r) mod p for an ephemeral
\* r, and both components of the pair reencrypt makes of it are in [0, p).
C12_CiphertextInRange ==
    /\ (op = "encrypt" /\ m < group.p) =>
          /\ ct[1] >= 0 /\ ct[1] < group.p
          /\ ct[2] >= 0 /\ ct[2] < group.p
          /\ \E r \in Ephemerals :
                /\ ct[1] = ModPow(group.g, r, group.p)
                /\ ct[2] = (m * ModPow(y, r, group.p)) % group.p
    /\ (op = "reencrypt" /\ m < group.p) =>
          /\ ct[1] >= 0 /\ ct[1] < group.p
          /\ ct[2] >= 0 /\ ct[2] < group.p

\* a^x mod p has no inverse modulo p
NoInverseExists(a) ==
    \A i \in 0..(group.p - 1) :
        (ModPow(a, x, group.p) * i) % group.p # 1

\* the byte-level decrypt got as far as the integer-level one
DecryptedSplit == op = "decrypt_bytes" /\ Len(buf) % 2 = 0

\* C13 as stated: decrypt fails with InvalidPrivateKey exactly when a^x mod p
\* has no inverse, and over a valid group it returns Ok for every pair,
\* a = 0, multiples of p and the pair read from an empty buffer included.
C13_AlwaysOkOverValidGroup ==
    /\ op = "decrypt" =>
          /\ res = Err("InvalidPrivateKey") <=> NoInverseExists(ct[1])
          /\ res.st = "Ok"
    /\ DecryptedSplit => res.st = "Ok"

\* C13 as amended: decrypt fails with InvalidPrivateKey exactly when a^x mod p
\* has no inverse, which over a valid group is exactly when a is a multiple
\* of p (a = 0 and the pair (0, 0) read from an empty buffer included); for
\* every other pair it returns Ok.
C13_FailsOnMultiplesOfP ==
    /\ op = "decrypt" =>
          /\ res = Err("InvalidPrivateKey") <=> NoInverseExists(ct[1])
          /\ res = Err("InvalidPrivateKey") <=> ct[1] % group.p = 0
          /\ res.st \in {"Ok", "InvalidPrivateKey"}
    /\ DecryptedSplit =>
          /\ res = Err("InvalidPrivateKey") <=> split[1] % group.p = 0
          /\ res.st \in {"Ok", "InvalidPrivateKey"}
    /\ (op = "decrypt_bytes" /\ buf = NoBytes) =>
          (split = << 0, 0 >> /\ res = Err("InvalidPrivateKey"))

\* a pair whose first component is p itself was refused
C13_Witness ==
    /\ op = "decrypt" /\ prev = "forge"
    /\ ct[1] = group.p /\ ct[2] > 0
    /\ res = Err("InvalidPrivateKey")

====
